---- MODULE Spec2Model ----
(***************************************************************************)
(* EventForge: the browser application (App.tsx, EventEditor, Settings,    *)
(* LocalDB, PublishService) and the manifest server (server/index.js,      *)
(* payment variant) as one state machine.                                  *)
(*                                                                         *)
(* A URL is a pair <<scheme, n>>: the scheme is what startsWith() tests,   *)
(* n tells whether the binary behind a blob:/data: reference resolves      *)
(* (1) or not (0), and for an /uploads/ path it is the filename token.     *)
(* An absent optional field (undefined) is 0; an absent record is None.    *)
(***************************************************************************)
EXTENDS Integers, Sequences, FiniteSets, TLC

\* ---------------------------------------------------------------- bounds
\* user operations that change data (edits, publishes, deletes, restores,
\* reloads) in one behaviour of the publish pipeline
MaxOps == 2
\* the same, in one behaviour of the bootstrap resolver
MaxBootOps == 3
\* ids Math.random() can hand to a new-event editor
MaxNewIds == 1
\* publishes in flight at the same time, where publishes may overlap
MaxInFlight == 2
\* edits and publishes of a session that works in the editors only
MaxEditorOps == 3
\* confirmation messages the mail service accepts in one behaviour
MaxMails == 2
\* the last millisecond on the server's clock at which a direct request is handled
MaxClock == 1
\* provider products the server holds after a direct publish request
MaxProducts == 2

\* ------------------------------------------------------- program constants
SeedPrice1 == 299
SeedPrice2 == 150
NewEventPrice == 0

None == [none |-> TRUE]

\* url schemes
NoUrl == <<"", 0>>
Http == <<"http", 0>>
Blob(ok) == <<"blob", ok>>
Data(ok) == <<"data", ok>>
Upload(tok) == <<"uploads", tok>>

StartsWithBlob(u) == u[1] = "blob"
StartsWithData(u) == u[1] = "data"

SeedIds == {1, 2}
NewIds == 3..(2 + MaxNewIds)
Ids == SeedIds \cup NewIds

Ev(id, price, img, assets, status) ==
    [id |-> id, price |-> price, imageUrl |-> img, assets |-> assets,
     status |-> status, stripeProductId |-> 0, stripePriceId |-> 0]

SEED_EVENTS ==
    << Ev(1, SeedPrice1, Http, <<>>, "published"),
       Ev(2, SeedPrice2, Http, <<>>, "draft") >>

SeedAsset == [id |-> 1, url |-> Http, blob |-> FALSE]

DefaultSettings == [id |-> "global", paymentProvider |-> "none"]

\* ---------------------------------------------------------------- helpers
Range(s) == {s[i] : i \in 1..Len(s)}

IdsOf(s) == {s[i].id : i \in 1..Len(s)}

\* Array.prototype.findIndex: the first index whose element has the id, 0 if none
FindIndex(s, id) ==
    IF \E i \in 1..Len(s) : s[i].id = id
    THEN CHOOSE i \in 1..Len(s) : s[i].id = id /\ \A j \in 1..(i-1) : s[j].id # id
    ELSE 0

NoDupIds(s) == \A i, j \in 1..Len(s) : s[i].id = s[j].id => i = j

\* IndexedDB getAll(): the records of a store in ascending key order
RECURSIVE SortById(_)
SortById(S) ==
    IF S = {} THEN <<>>
    ELSE LET m == CHOOSE x \in S : \A y \in S : x.id <= y.id
         IN  <<m>> \o SortById(S \ {m})

VARIABLES
    dbEvents,       \* Local Store, events store: id -> Event or None
    dbSettings,     \* Local Store, settings store: the 'global' record or None
    dbAssets,       \* Local Store, assets store: set of asset records (keyed by id)
    events,         \* App state: Event[]
    globalAssets,   \* App state: Asset[]
    settings,       \* App state: AppSettings
    isLoading,      \* App state
    isVisitorMode,  \* App state
    editor,         \* the mounted EventEditor: mode, formData, publishStatus
    net,            \* publishes in flight: requests sent, responses not yet handled
    manifest,       \* server: public/events.json, None if absent
    stripe,         \* server: whether STRIPE_SECRET_KEY is configured
    products,       \* payment provider: number of products created so far
    clock,          \* server: Date.now()
    ops,            \* number of user operations so far
    boot,           \* what the last run of init() did
    backup,         \* the backup file last downloaded, None if none
    mails,          \* server: confirmation messages handed to the mail service
    answer,         \* server: route and status of the last request sent to it directly
    uploads,        \* server: the uploads directory, filename token -> upload stored
    timers          \* the mounted editor's pending 3-second status resets

vars == <<dbEvents, dbSettings, dbAssets, events, globalAssets, settings,
          isLoading, isVisitorMode, editor, net, manifest, stripe, products,
          clock, ops, boot, backup, mails, answer, uploads, timers>>

aux == <<mails, answer, uploads, timers>>

server == <<manifest, stripe, products, clock>>

db == <<dbEvents, dbSettings, dbAssets>>
app == <<events, globalAssets, settings, isLoading, isVisitorMode>>

\* ------------------------------------------------------------- Local Store
EmptyStore == [i \in Ids |-> None]

\* LocalDB.getAllEvents
getAllEvents(store) == SortById({store[i] : i \in {j \in Ids : store[j] # None}})

\* LocalDB.saveEvent: put() under keyPath 'id'
saveEvent(store, e) == [store EXCEPT ![e.id] = e]

\* LocalDB.deleteEvent
deleteEvent(store, id) == [store EXCEPT ![id] = None]

\* LocalDB.getAllAssets
getAllAssets(store) == SortById(store)

\* LocalDB.saveAsset: put() of {...asset, blob}
saveAsset(store, a) == {x \in store : x.id # a.id} \cup {a}

\* saving a list of events one after the other
RECURSIVE saveAll(_, _)
saveAll(store, s) ==
    IF s = <<>> THEN store ELSE saveAll(saveEvent(store, Head(s)), Tail(s))

\* a seedData that writes nothing
seedData_Nothing(evStore, asStore, k) == [events |-> evStore, assets |-> asStore]

\* LocalDB.seedData, stopped by an exception after `k` writes (k >= 3: not at all)
seedData(evStore, asStore, k) ==
    LET evEmpty == getAllEvents(evStore) = <<>>
        nEv     == IF evEmpty THEN Len(SEED_EVENTS) ELSE 0
        written == IF k < nEv THEN k ELSE nEv
        ev2     == saveAll(evStore, SubSeq(SEED_EVENTS, 1, written))
        as2     == IF k > nEv /\ asStore = {} THEN saveAsset(asStore, SeedAsset)
                   ELSE asStore
    IN  [events |-> ev2, assets |-> as2]

\* ------------------------------------------------------------------- init
FetchOutcomes == {"ok", "netfail", "notok", "unparseable"}
\* the step of init() that throws, if any
Faults == {"none", "read", "seed0", "seed1", "seed2", "url"}
SeedWrites(f) == CASE f = "seed0" -> 0 [] f = "seed1" -> 1 [] f = "seed2" -> 2
                   [] OTHER -> 3

\* URL.createObjectURL for the assets that carry a blob
processAsset(a) == IF a.blob THEN [a EXCEPT !.url = Blob(1)] ELSE a
processedAssets(s) == [i \in 1..Len(s) |-> processAsset(s[i])]

\* the body fetch('./events.json') yields: the manifest when it is served and
\* parsed, nothing otherwise
NoData == [events |-> <<>>, settings |-> None]
Fetched == IF manifest # None THEN manifest ELSE NoData

\* line 72 without its first disjunct
hasLocalData_SettingsOnly(loadedEvents, loadedSettings) == loadedSettings # None

\* App.tsx line 72
hasLocalData(loadedEvents, loadedSettings) ==
    Len(loadedEvents) > 0 \/ loadedSettings # None

\* a fetch that takes any response body for a manifest
manifestLoaded_AnyBody(outcome) == outcome \in {"ok", "unparseable"}

\* App.tsx lines 82-91: the try block reaches setIsVisitorMode(true) only when
\* fetch resolves, response.ok holds and response.json() parses
manifestLoaded(outcome) == outcome = "ok"

\* line 85 keeping only the fallback value
manifestEvents_Empty(data) == <<>>

\* App.tsx line 85: data.events || []
manifestEvents(data) == data.events

\* lines 113-114 run although an earlier step threw: the events are set, the
\* assets are not
setLists_Partial(threw, evs, assets) ==
    /\ events' = evs
    /\ globalAssets' = IF threw THEN globalAssets ELSE processedAssets(assets)

\* App.tsx lines 105-114, reached only when no earlier step threw: the catch
\* block of line 115 skips them
setLists(threw, evs, assets) ==
    IF threw
    THEN UNCHANGED <<events, globalAssets>>
    ELSE /\ events' = evs
         /\ globalAssets' = processedAssets(assets)

init(outcome, fault) ==
    LET loadedEvents   == getAllEvents(dbEvents)
        loadedSettings == dbSettings
        loadedAssets   == getAllAssets(dbAssets)
        local          == hasLocalData(loadedEvents, loadedSettings)
        visitor        == ~local /\ manifestLoaded(outcome)
        seeding        == ~local /\ ~visitor
        seeded         == seedData(dbEvents, dbAssets, SeedWrites(fault))
        seedThrew      == seeding /\ fault \in {"seed0", "seed1", "seed2"}
        dbEv2          == IF seeding THEN seeded.events ELSE dbEvents
        dbAs2          == IF seeding THEN seeded.assets ELSE dbAssets
        evs            == IF visitor THEN manifestEvents(Fetched)
                          ELSE getAllEvents(dbEv2)
        assets         == IF seeding THEN getAllAssets(dbAs2) ELSE loadedAssets
        urlThrew       == fault = "url" /\ \E a \in Range(assets) : a.blob
        newSettings    == IF visitor
                          THEN IF Fetched.settings # None THEN Fetched.settings
                               ELSE settings
                          ELSE IF loadedSettings # None THEN loadedSettings
                          ELSE settings
    IN  /\ isLoading
        /\ isLoading' = FALSE
        /\ outcome = "ok" => manifest # None
        /\ UNCHANGED <<dbSettings, editor, net, server, ops, backup, aux>>
        /\ IF fault = "read"
           THEN /\ UNCHANGED <<dbEvents, dbAssets, events, globalAssets, settings,
                               isVisitorMode>>
                /\ boot' = [hadLocal |-> FALSE, fetched |-> "no", seeded |-> FALSE,
                            threw |-> TRUE]
           ELSE /\ dbEvents' = dbEv2
                /\ dbAssets' = dbAs2
                /\ settings' = IF seedThrew THEN settings ELSE newSettings
                /\ isVisitorMode' = visitor
                /\ setLists(seedThrew \/ urlThrew, evs, assets)
                /\ boot' = [hadLocal |-> local,
                            fetched |-> IF local THEN "no" ELSE outcome,
                            seeded |-> seeding, threw |-> seedThrew \/ urlThrew]

\* init() with any of its steps allowed to throw
Bootstrap == \E outcome \in FetchOutcomes, fault \in Faults : init(outcome, fault)

\* init() when the Local Store and URL.createObjectURL work and the manifest,
\* if there is one, can be fetched
BootstrapOk == init(IF manifest # None THEN "ok" ELSE "notok", "none")

\* ------------------------------------------------------------ EventEditor
NoEditor == [mode |-> "none", formData |-> None, publishStatus |-> "idle",
             clean |-> FALSE]

EditorOpen == editor.mode # "none"

\* useState initial value of a new-event editor
BlankEvent(id) == Ev(id, NewEventPrice, NoUrl, <<>>, "draft")

\* ids no event of the store, the state or a request in flight carries
UnusedIds ==
    {i \in NewIds : /\ dbEvents[i] = None
                    /\ i \notin IdsOf(events)
                    /\ \A r \in net : i \notin IdsOf(r.events)}

\* Math.random().toString(36).substr(2, 9): an id nothing carries yet
FreshId == CHOOSE i \in UnusedIds : \A j \in UnusedIds : i <= j

\* a publish started from the mounted editor loses it when the editor unmounts
Unmount(n) == {[r EXCEPT !.edLive = FALSE] : r \in n}

\* route /new
OpenNew ==
    /\ ~isLoading /\ ~EditorOpen
    /\ UnusedIds # {}
    /\ editor' = [mode |-> "new", formData |-> BlankEvent(FreshId),
                  publishStatus |-> "idle", clean |-> TRUE]
    /\ UNCHANGED <<db, app, net, server, ops, boot, backup, aux>>

\* route /edit/:id, EventEditorWrapper: events.find(e => e.id === id)
OpenEdit ==
    /\ ~isLoading /\ ~EditorOpen
    /\ \E id \in IdsOf(events) :
          editor' = [mode |-> "edit", formData |-> events[FindIndex(events, id)],
                     publishStatus |-> "idle", clean |-> TRUE]
    /\ UNCHANGED <<db, app, net, server, ops, boot, backup, aux>>

\* the back arrow: navigate('/')
CloseEditor ==
    /\ EditorOpen
    /\ editor' = NoEditor
    /\ net' = Unmount(net)
    /\ timers' = 0
    /\ UNCHANGED <<db, app, server, ops, boot, backup, mails, answer, uploads>>

\* a setTimeout(() => setPublishStatus('idle'), 3000) of the mounted editor
\* comes due; nothing cancels it or ties it to the publish that started it
TimerFires ==
    /\ EditorOpen /\ timers > 0
    /\ timers' = timers - 1
    /\ editor' = [editor EXCEPT !.publishStatus = "idle"]
    /\ UNCHANGED <<db, app, net, server, ops, boot, backup, mails, answer,
                   uploads>>

FormPrices == {0, 50}
FormImages == {Blob(1), Blob(0), Data(1), Data(0)}

\* the price input: setFormData({...formData, price})
EditPrice ==
    /\ EditorOpen
    /\ \E p \in FormPrices \ {editor.formData.price} :
          editor' = [editor EXCEPT !.formData.price = p, !.clean = FALSE]
    /\ ops' = ops + 1
    /\ UNCHANGED <<db, app, net, server, boot, backup, aux>>

\* the image URL input: setFormData({...formData, imageUrl})
EditImage ==
    /\ EditorOpen
    /\ \E u \in FormImages \ {editor.formData.imageUrl} :
          editor' = [editor EXCEPT !.formData.imageUrl = u, !.clean = FALSE]
    /\ ops' = ops + 1
    /\ UNCHANGED <<db, app, net, server, boot, backup, aux>>

\* ------------------------------------------------------------ App handlers
\* events.map(e => e.id === updated.id ? updated : e)
MapReplace(s, e) == [i \in 1..Len(s) |-> IF s[i].id = e.id THEN e ELSE s[i]]

\* events.filter(e => e.id !== id)
RECURSIVE FilterOut(_, _)
FilterOut(s, id) ==
    IF s = <<>> THEN <<>>
    ELSE IF Head(s).id = id THEN FilterOut(Tail(s), id)
    ELSE <<Head(s)>> \o FilterOut(Tail(s), id)

handleCreateEvent(newEvent) ==
    IF isVisitorMode THEN UNCHANGED <<dbEvents, events>>
    ELSE /\ dbEvents' = saveEvent(dbEvents, newEvent)
         /\ events' = <<newEvent>> \o events

handleUpdateEvent(updatedEvent) ==
    IF isVisitorMode THEN UNCHANGED <<dbEvents, events>>
    ELSE /\ dbEvents' = saveEvent(dbEvents, updatedEvent)
         /\ events' = MapReplace(events, updatedEvent)

\* EventEditor.handleSubmit: onSave(formData); navigate('/')
ClickSave ==
    /\ EditorOpen
    /\ IF editor.mode = "new" THEN handleCreateEvent(editor.formData)
       ELSE handleUpdateEvent(editor.formData)
    /\ editor' = NoEditor
    /\ net' = Unmount(net)
    /\ timers' = 0
    /\ UNCHANGED <<dbSettings, dbAssets, globalAssets, settings, isLoading,
                   isVisitorMode, server, ops, boot, backup, mails, answer,
                   uploads>>

\* Dashboard delete button -> handleDeleteEvent
DeleteEvent ==
    /\ ~isLoading /\ ~EditorOpen
    /\ \E id \in IdsOf(events) :
          IF isVisitorMode THEN UNCHANGED <<dbEvents, events>>
          ELSE /\ dbEvents' = deleteEvent(dbEvents, id)
               /\ events' = FilterOut(events, id)
    /\ ops' = ops + 1
    /\ UNCHANGED <<dbSettings, dbAssets, globalAssets, settings, isLoading,
                   isVisitorMode, editor, net, server, boot, backup, aux>>

NewAssetIds == {2}

\* handleAddAsset(asset, fileBlob?)
AddAsset ==
    /\ ~isLoading
    /\ \E id \in NewAssetIds \ {a.id : a \in dbAssets}, withBlob \in BOOLEAN :
          LET asset == [id |-> id, url |-> Http, blob |-> withBlob]
          IN  IF isVisitorMode THEN UNCHANGED <<dbAssets, globalAssets>>
              ELSE /\ dbAssets' = saveAsset(dbAssets, asset)
                   /\ globalAssets' = <<processAsset(asset)>> \o globalAssets
    /\ ops' = ops + 1
    /\ UNCHANGED <<dbEvents, dbSettings, events, settings, isLoading,
                   isVisitorMode, editor, net, server, boot, backup, aux>>

Providers == {"none", "stripe"}

\* Settings page -> handleUpdateSettings
UpdateSettings ==
    /\ ~isLoading /\ ~EditorOpen
    /\ \E p \in Providers \ {settings.paymentProvider} :
          LET newSettings == [settings EXCEPT !.paymentProvider = p]
          IN  IF isVisitorMode THEN UNCHANGED <<dbSettings, settings>>
              ELSE /\ dbSettings' = newSettings
                   /\ settings' = newSettings
    /\ ops' = ops + 1
    /\ UNCHANGED <<dbEvents, dbAssets, events, globalAssets, isLoading,
                   isVisitorMode, editor, net, server, boot, backup, aux>>

\* --------------------------------------------------------- PublishService
\* findBlobForUrl: the blob behind a blob: URL, null for anything else or when
\* the fetch fails
findBlobForUrl(url) == StartsWithBlob(url) /\ url[2] = 1

\* the cover image of one event (publishEvents, part A); `n` uploads were made
\* before it, each upload is stored under the server's Date.now() token
CoverStep(e, n, gap, upFail) ==
    IF e.imageUrl # NoUrl /\ (StartsWithBlob(e.imageUrl) \/ StartsWithData(e.imageUrl))
    THEN IF StartsWithData(e.imageUrl) /\ e.imageUrl[2] = 0
         THEN [e |-> e, n |-> n, threw |-> TRUE]      \* fetch(data:) rejects
         ELSE IF StartsWithData(e.imageUrl) \/ findBlobForUrl(e.imageUrl)
         THEN IF upFail
              THEN [e |-> e, n |-> n, threw |-> TRUE]  \* uploadImage throws
              ELSE [e |-> [e EXCEPT !.imageUrl = Upload(clock + (n + 1) * gap)],
                    n |-> n + 1, threw |-> FALSE]
         ELSE [e |-> e, n |-> n, threw |-> FALSE]
    ELSE [e |-> e, n |-> n, threw |-> FALSE]

\* the assets of one event (publishEvents, part B), from asset `i` on
RECURSIVE AssetsStep(_, _, _, _, _)
AssetsStep(e, i, n, gap, upFail) ==
    IF i > Len(e.assets) THEN [e |-> e, n |-> n, threw |-> FALSE]
    ELSE LET url == e.assets[i].url
         IN  IF url # NoUrl /\ (StartsWithBlob(url) \/ StartsWithData(url))
                /\ findBlobForUrl(url)
             THEN IF upFail THEN [e |-> e, n |-> n, threw |-> TRUE]
                  ELSE AssetsStep(
                         [e EXCEPT !.assets[i].url = Upload(clock + (n + 1) * gap)],
                         i + 1, n + 1, gap, upFail)
             ELSE AssetsStep(e, i + 1, n, gap, upFail)

\* publishEvents steps 1 and 2: the deep copy with its references rewritten
RECURSIVE Prepare(_, _, _, _)
Prepare(evs, n, gap, upFail) ==
    IF evs = <<>> THEN [events |-> <<>>, n |-> n, threw |-> FALSE]
    ELSE LET c == CoverStep(Head(evs), n, gap, upFail)
             a == AssetsStep(c.e, 1, c.n, gap, upFail)
             rest == Prepare(Tail(evs), a.n, gap, upFail)
         IN  IF c.threw THEN [events |-> <<>>, n |-> c.n, threw |-> TRUE]
             ELSE IF a.threw THEN [events |-> <<>>, n |-> a.n, threw |-> TRUE]
             ELSE [events |-> <<a.e>> \o rest.events, n |-> rest.n,
                   threw |-> rest.threw]

\* multer's filename callback: `${name}-${Date.now()}${ext}`
filename(originalname, now) == <<originalname, now>>

\* the files the `n` uploads of one publishEvents call leave in the uploads
\* directory: FormData sends a Blob under the original name 'blob'
Stored(n, gap) == {filename("blob", clock + k * gap) : k \in 1..n}

\* handlePublish lines 158-171: the list that goes out
Splice(evs, currentEvent) ==
    LET index == FindIndex(evs, currentEvent.id)
    IN  IF index > 0 THEN [evs EXCEPT ![index] = currentEvent]
        ELSE <<currentEvent>> \o evs

\* the provider ids the Local Store holds for a priced event, 0 if none
StoredProduct(id) ==
    IF dbEvents[id] # None /\ dbEvents[id].price > 0
    THEN dbEvents[id].stripeProductId ELSE 0
StoredPrice(id) ==
    IF dbEvents[id] # None /\ dbEvents[id].price > 0
    THEN dbEvents[id].stripePriceId ELSE 0

\* milliseconds of the server's clock between two uploads
UploadGaps == {1}

\* the request of one publish; repeatP/repeatQ: the provider ids a publish
\* issued with no edits finds in the Local Store for its current event
Request(currentEvent, payload) ==
    LET repeat == editor.clean /\ stripe /\ currentEvent.price > 0
    IN  [pid |-> ops + 1, st |-> "req", cur |-> currentEvent.id,
         repeatP |-> IF repeat THEN StoredProduct(currentEvent.id) ELSE 0,
         repeatQ |-> IF repeat THEN StoredPrice(currentEvent.id) ELSE 0,
         events |-> payload, settings |-> settings,
         ok |-> FALSE, respEvents |-> <<>>, calls |-> <<>>,
         edLive |-> TRUE, pageLive |-> TRUE]

\* handlePublish over a publishEvents that rewrites the references in the
\* caller's event objects instead of in a deep copy
doPublish_InPlace(currentEvent, gap, upFail, status) ==
    LET eventsToPublish == Splice(events, currentEvent)
        prep == Prepare(eventsToPublish, 0, gap, upFail)
    IN  /\ dbEvents' = saveEvent(dbEvents, currentEvent)
        /\ events' = IF prep.threw THEN eventsToPublish ELSE prep.events
        /\ clock' = clock + prep.n * gap
        /\ uploads' = uploads \cup Stored(prep.n, gap)
        /\ IF prep.threw
           THEN /\ status = "error"
                /\ net' = net
           ELSE /\ status = "publishing"
                /\ net' = net \cup {Request(currentEvent, prep.events)}

\* App.handlePublish lines 157-173, up to the POST of publishEvents; `status`
\* is what handlePublishClick shows next
doPublish(currentEvent, gap, upFail, status) ==
    LET eventsToPublish == Splice(events, currentEvent)
        prep == Prepare(eventsToPublish, 0, gap, upFail)
    IN  /\ dbEvents' = saveEvent(dbEvents, currentEvent)
        /\ events' = eventsToPublish
        /\ clock' = clock + prep.n * gap
        /\ uploads' = uploads \cup Stored(prep.n, gap)
        /\ IF prep.threw
           THEN /\ status = "error"
                /\ net' = net
           ELSE /\ status = "publishing"
                /\ net' = net \cup {Request(currentEvent, prep.events)}

\* handlePublish without its first line
handlePublish_Unguarded(currentEvent, gap, upFail, status) ==
    doPublish(currentEvent, gap, upFail, status)

\* App.handlePublish
handlePublish(currentEvent, gap, upFail, status) ==
    IF isVisitorMode
    THEN /\ status = "success"
         /\ UNCHANGED <<dbEvents, events, clock, net, uploads>>
    ELSE doPublish(currentEvent, gap, upFail, status)

\* EventEditor.handlePublishClick -> App.handlePublish -> publishEvents, up to
\* the POST of the manifest
ClickPublish ==
    /\ EditorOpen /\ editor.publishStatus # "publishing"
    /\ ops' = ops + 1
    /\ LET eventToPublish == [editor.formData EXCEPT !.status = "published"]
       IN  \E gap \in UploadGaps, upFail \in BOOLEAN,
              status \in {"publishing", "success", "error"} :
              /\ handlePublish(eventToPublish, gap, upFail, status)
              /\ editor' = [editor EXCEPT !.formData = eventToPublish,
                                          !.publishStatus = status]
              /\ timers' = IF status = "publishing" THEN timers ELSE timers + 1
    /\ UNCHANGED <<dbSettings, dbAssets, globalAssets, settings, isLoading,
                   isVisitorMode, manifest, stripe, products, boot, backup,
                   mails, answer>>

\* ----------------------------------------------------------------- server
\* a provider that keys the product it creates by metadata.eventId
syncStripeProduct_KeyedByEvent(e, nprod, failing, kind) ==
    IF ~stripe \/ e.price <= 0
    THEN [e |-> e, calls |-> << <<"none", e.id, 0>> >>, products |-> nprod]
    ELSE IF e.stripeProductId # 0
    THEN [e |-> e, calls |-> << <<"update", e.id, e.stripeProductId>> >>,
          products |-> nprod]
    ELSE [e |-> [e EXCEPT !.stripeProductId = e.id, !.stripePriceId = e.id],
          calls |-> << <<"create", e.id, e.id>> >>, products |-> nprod]

\* syncStripeProduct that never looks at event.stripeProductId
syncStripeProduct_AlwaysCreate(e, nprod, failing, kind) ==
    IF ~stripe \/ e.price <= 0
    THEN [e |-> e, calls |-> << <<"none", e.id, 0>> >>, products |-> nprod]
    ELSE [e |-> [e EXCEPT !.stripeProductId = nprod + 1,
                          !.stripePriceId = nprod + 1],
          calls |-> << <<"create", e.id, nprod + 1>> >>, products |-> nprod + 1]

\* syncStripeProduct for one event, with the provider call it issues as
\* <<"update" | "create" | "none", event id, product id>>; `failing` makes the provider call of kind
\* `kind` ("product": products.update / products.create, "price": prices.create)
\* throw into the catch block
syncStripeProduct(e, nprod, failing, kind) ==
    IF ~stripe \/ e.price <= 0
    THEN [e |-> e, calls |-> << <<"none", e.id, 0>> >>, products |-> nprod]
    ELSE IF e.stripeProductId # 0
    THEN [e |-> e, calls |-> << <<"update", e.id, e.stripeProductId>> >>,
          products |-> nprod]
    ELSE IF failing /\ kind = "product"
    THEN [e |-> e, calls |-> << <<"create", e.id, 0>> >>, products |-> nprod]
    ELSE IF failing /\ kind = "price"
    THEN [e |-> e, calls |-> << <<"create", e.id, nprod + 1>> >>,
          products |-> nprod + 1]
    ELSE [e |-> [e EXCEPT !.stripeProductId = nprod + 1,
                          !.stripePriceId = nprod + 1],
          calls |-> << <<"create", e.id, nprod + 1>> >>, products |-> nprod + 1]

\* the loop of POST /api/publish over the request's events, from event `i` on;
\* `kind` is the kind of provider call that throws during this request, if any
RECURSIVE ProcessEvents(_, _, _, _)
ProcessEvents(evs, i, nprod, kind) ==
    IF i > Len(evs) THEN [events |-> <<>>, calls |-> <<>>, products |-> nprod]
    ELSE LET one  == syncStripeProduct(evs[i], nprod, kind # "none", kind)
             rest == ProcessEvents(evs, i + 1, one.products, kind)
         IN  [events |-> <<one.e>> \o rest.events,
              calls |-> one.calls \o rest.calls,
              products |-> rest.products]

\* what can go wrong while the server handles one publish: a provider call
\* throws, or one of the two writeFileSync calls throws
ServerOutcomes == {"ok", "product", "price", "failPublic", "failDist"}

\* a POST /api/publish that adds the request's events to the manifest it
\* finds and keeps the events the request does not mention
ServerPublish_Merge ==
    \E r \in net, o \in ServerOutcomes :
       LET kind == IF o \in {"product", "price"} THEN o ELSE "none"
           done == ProcessEvents(r.events, 1, products, kind)
           wrote == o \notin {"failPublic", "failDist"}
           kept == IF manifest = None THEN <<>>
                   ELSE SelectSeq(manifest.events,
                                  LAMBDA e : e.id \notin IdsOf(done.events))
           publishData == [lastUpdated |-> clock, events |-> done.events \o kept,
                           settings |-> r.settings, by |-> r.pid]
       IN  /\ r.st = "req"
           /\ products' = done.products
           /\ manifest' = IF o = "failPublic" THEN manifest ELSE publishData
           /\ net' = IF r.pageLive
                     THEN (net \ {r}) \cup
                          {[r EXCEPT !.st = "resp", !.ok = wrote,
                                     !.respEvents = IF wrote THEN done.events ELSE <<>>,
                                     !.calls = done.calls]}
                     ELSE net \ {r}
           /\ UNCHANGED <<db, app, editor, stripe, clock, ops, boot, backup, aux>>

\* POST /api/publish, payment variant
ServerPublish ==
    \E r \in net, o \in ServerOutcomes :
       LET kind == IF o \in {"product", "price"} THEN o ELSE "none"
           done == ProcessEvents(r.events, 1, products, kind)
           wrote == o \notin {"failPublic", "failDist"}
           publishData == [lastUpdated |-> clock, events |-> done.events,
                           settings |-> r.settings, by |-> r.pid]
       IN  /\ r.st = "req"
           /\ products' = done.products
           /\ manifest' = IF o = "failPublic" THEN manifest ELSE publishData
           /\ net' = IF r.pageLive
                     THEN (net \ {r}) \cup
                          {[r EXCEPT !.st = "resp", !.ok = wrote,
                                     !.respEvents = IF wrote THEN done.events ELSE <<>>,
                                     !.calls = done.calls]}
                     ELSE net \ {r}
           /\ UNCHANGED <<db, app, editor, stripe, clock, ops, boot, backup, aux>>

\* the POST never reaches the server, or its response never reaches the page
NetFail ==
    \E r \in net :
       /\ r.st = "req" /\ r.pageLive
       /\ net' = (net \ {r}) \cup {[r EXCEPT !.st = "resp", !.ok = FALSE]}
       /\ UNCHANGED <<db, app, editor, server, ops, boot, backup, aux>>

\* publishEvents without the `if (!response.ok) throw` of lines 95-97: a
\* response with an error status falls through to `return eventsToPublish`
PublishResponse_IgnoreStatus ==
    \E r \in net :
       /\ r.st = "resp"
       /\ net' = net \ {r}
       /\ LET returned == IF r.ok /\ Len(r.respEvents) > 0 THEN r.respEvents
                           ELSE r.events
              answered == r.ok \/ Len(r.calls) > 0
          IN  /\ IF answered
                 THEN /\ dbEvents' = saveAll(dbEvents, returned)
                      /\ events' = returned
                 ELSE UNCHANGED <<dbEvents, events>>
              /\ editor' = IF r.edLive
                           THEN [editor EXCEPT !.publishStatus =
                                    IF answered THEN "success" ELSE "error"]
                           ELSE editor
       /\ timers' = IF r.edLive THEN timers + 1 ELSE timers
       /\ UNCHANGED <<dbSettings, dbAssets, globalAssets, settings, isLoading,
                      isVisitorMode, server, ops, boot, backup, mails, answer,
                      uploads>>

\* handlePublish lines 173-185 and handlePublishClick lines 115-120: the
\* response of a publish reaches the page
PublishResponse ==
    \E r \in net :
       /\ r.st = "resp"
       /\ net' = net \ {r}
       /\ IF r.ok /\ Len(r.respEvents) > 0
          THEN /\ dbEvents' = saveAll(dbEvents, r.respEvents)
               /\ events' = r.respEvents
          ELSE UNCHANGED <<dbEvents, events>>
       /\ editor' = IF r.edLive
                    THEN [editor EXCEPT !.publishStatus =
                                           IF r.ok THEN "success" ELSE "error"]
                    ELSE editor
       /\ timers' = IF r.edLive THEN timers + 1 ELSE timers
       /\ UNCHANGED <<dbSettings, dbAssets, globalAssets, settings, isLoading,
                      isVisitorMode, server, ops, boot, backup, mails, answer,
                      uploads>>

\* ----------------------------------------------------------- server routes
\* Authorization headers a request can carry
BearerSecret == "Bearer secret"
AuthHeaders == {"", "secret", "bearer secret", BearerSecret}

\* checkAuth that accepts any header mentioning the scheme
checkAuth_AnyBearer(authHeader) == authHeader \in {"bearer secret", BearerSecret}

\* checkAuth: authHeader === `Bearer ${ADMIN_SECRET}`
checkAuth(authHeader) == authHeader = BearerSecret

\* original names of uploaded files
FileNames == {"blob", "logo.png"}

\* milliseconds between a request and the one the server handled before it
ServerGaps == {0, 1}

\* what a request sent to the server directly carries as its body: JSON that
\* express.json() parses, JSON it cannot parse, a multipart form with a file,
\* a multipart form without one
JsonBodies == {"json", "badjson"}
FormBodies == {"file", "nofile", "badjson"}

\* express.json() of line 324, mounted before every route below it: a body
\* announced as JSON that does not parse is answered 400 by the parser's
\* error, and no later middleware or handler runs
jsonRejects(body) == body = "badjson"

\* the answer of a route: the request's route, Authorization header and body,
\* the status sent, whether the handler called the AI service, and the
\* filename behind the URL an upload returns
Answer(route, auth, body, status, called) ==
    [route |-> route, auth |-> auth, body |-> body, status |-> status,
     called |-> called, file |-> filename("", 0)]

\* POST /api/upload sent to the server directly: express.json, checkAuth,
\* then multer stores the file, then the handler answers with its URL
UploadFile ==
    \E auth \in AuthHeaders, name \in FileNames, body \in FormBodies,
       gap \in ServerGaps :
       LET now == clock + gap
           status == IF jsonRejects(body) THEN 400
                     ELSE IF ~checkAuth(auth) THEN 401
                     ELSE IF body = "nofile" THEN 400 ELSE 200
       IN  /\ now <= MaxClock
           /\ IF status = 200
              THEN /\ uploads' = uploads \cup {filename(name, now)}
                   /\ clock' = now
                   /\ answer' = [Answer("upload", auth, body, 200, FALSE)
                                    EXCEPT !.file = filename(name, now)]
              ELSE /\ answer' = Answer("upload", auth, body, status, FALSE)
                   /\ UNCHANGED <<uploads, clock>>
           /\ UNCHANGED <<db, app, editor, net, manifest, stripe, products, ops,
                          boot, backup, mails, timers>>

\* event lists a direct POST /api/publish can carry
DirectPayloads == {SEED_EVENTS, <<SEED_EVENTS[2]>>}

\* POST /api/publish sent to the server directly, payment variant:
\* express.json, checkAuth, then the handler of ServerPublish; `isArray`:
\* the body's `events` is an array
PostPublish ==
    \E auth \in AuthHeaders, body \in JsonBodies, evs \in DirectPayloads,
       isArray \in BOOLEAN, o \in ServerOutcomes :
       LET kind == IF o \in {"product", "price"} THEN o ELSE "none"
           done == ProcessEvents(evs, 1, products, kind)
           wrote == o \notin {"failPublic", "failDist"}
           publishData == [lastUpdated |-> clock, events |-> done.events,
                           settings |-> DefaultSettings, by |-> 0]
           early == IF jsonRejects(body) THEN 400
                    ELSE IF ~checkAuth(auth) THEN 401
                    ELSE IF ~isArray THEN 400 ELSE 0
       IN  IF early # 0
           THEN /\ answer' = Answer("publish", auth, body, early, FALSE)
                /\ UNCHANGED <<db, app, editor, net, server, ops, boot, backup,
                               mails, uploads, timers>>
           ELSE /\ done.products <= MaxProducts
                /\ products' = done.products
                /\ manifest' = IF o = "failPublic" THEN manifest ELSE publishData
                /\ answer' = Answer("publish", auth, body,
                                    IF wrote THEN 200 ELSE 500, FALSE)
                /\ UNCHANGED <<db, app, editor, net, stripe, clock, ops, boot,
                               backup, mails, uploads, timers>>

\* POST /api/ai/description sent to the server directly: express.json,
\* checkAuth, then the handler; `key`: GEMINI_API_KEY is set, `aiOk`: the call
\* to the AI service succeeds
AiRequest ==
    \E auth \in AuthHeaders, body \in JsonBodies, key \in BOOLEAN,
       aiOk \in BOOLEAN :
       LET status == IF jsonRejects(body) THEN 400
                     ELSE IF ~checkAuth(auth) THEN 401
                     ELSE IF ~key THEN 500
                     ELSE IF aiOk THEN 200 ELSE 500
           called == ~jsonRejects(body) /\ checkAuth(auth) /\ key
       IN  /\ answer' = Answer("ai", auth, body, status, called)
           /\ UNCHANGED <<db, app, editor, net, server, ops, boot, backup,
                          mails, uploads, timers>>

\* ---------------------------------------------------------------- webhook
\* no request has been sent to the server directly yet
NoAnswer == [route |-> "none", status |-> 0]

\* the stripe-signature header of a notification: absent, not matching the
\* body under the webhook secret, or matching it
Signatures == {"none", "bad", "good"}

\* the raw body: not JSON, a checkout.session.completed event, another event
Bodies == {"malformed", "completed", "other"}

\* the try block of POST /api/webhook: TRUE when it throws. The signature is
\* checked only when the provider client, STRIPE_WEBHOOK_SECRET and the
\* header are all present; otherwise the body is parsed as it came
webhookThrows(sig, secret, body) ==
    IF stripe /\ secret /\ sig # "none"
    THEN sig = "bad" \/ body = "malformed"
    ELSE body = "malformed"

\* POST /api/webhook. `secret`: STRIPE_WEBHOOK_SECRET is set; `resend`: the
\* mail client is configured; `email`: the session carries a customer email;
\* `eventId`: the session's metadata.eventId (0: none)
Webhook ==
    \E sig \in Signatures, body \in Bodies, secret \in BOOLEAN,
       resend \in BOOLEAN, email \in BOOLEAN, eventId \in Ids \cup {0} :
       LET threw == webhookThrows(sig, secret, body)
           found == manifest # None /\ eventId \in IdsOf(manifest.events)
           sends == ~threw /\ body = "completed" /\ resend /\ email /\ found
       IN  /\ mails' = IF sends THEN mails + 1 ELSE mails
           /\ answer' = [route |-> "webhook",
                         status |-> IF threw THEN 400 ELSE 200,
                         sig |-> sig, secret |-> secret, body |-> body]
           /\ UNCHANGED <<db, app, editor, net, server, ops, boot, backup,
                          uploads, timers>>

\* ------------------------------------------------------ backup and reload
StripeSettings == [id |-> "global", paymentProvider |-> "stripe"]

BadFile == [bad |-> TRUE]

\* backup files a user can pick: unparseable, or {events, settings}
BackupFiles ==
    { BadFile,
      [events |-> << Ev(1, SeedPrice1, Http, << [url |-> Data(1)] >>, "published") >>,
       settings |-> None],
      [events |-> << Ev(2, SeedPrice2, Blob(0), << [url |-> Blob(1)] >>, "draft") >>,
       settings |-> StripeSettings] }

\* a restoreBackup that replaces the events store instead of adding to it
restoreBackup_Replace(data, k) ==
    IF data = BadFile
    THEN [events |-> dbEvents, settings |-> dbSettings, ok |-> FALSE]
    ELSE LET nEv    == Len(data.events)
             writes == nEv + (IF data.settings # None THEN 1 ELSE 0)
             saved  == IF k < nEv THEN k ELSE nEv
         IN  [events |-> saveAll(EmptyStore, SubSeq(data.events, 1, saved)),
              settings |-> IF data.settings # None /\ k > nEv THEN data.settings
                           ELSE dbSettings,
              ok |-> k >= writes]

\* LocalDB.restoreBackup; `k` is the number of store writes that succeed
\* before one throws into the catch block
restoreBackup(data, k) ==
    IF data = BadFile
    THEN [events |-> dbEvents, settings |-> dbSettings, ok |-> FALSE]
    ELSE LET nEv    == Len(data.events)
             writes == nEv + (IF data.settings # None THEN 1 ELSE 0)
             saved  == IF k < nEv THEN k ELSE nEv
         IN  [events |-> saveAll(dbEvents, SubSeq(data.events, 1, saved)),
              settings |-> IF data.settings # None /\ k > nEv THEN data.settings
                           ELSE dbSettings,
              ok |-> k >= writes]

\* the state of a freshly loaded page
PageLoad ==
    /\ events' = <<>>
    /\ globalAssets' = <<>>
    /\ settings' = DefaultSettings
    /\ isLoading' = TRUE
    /\ isVisitorMode' = FALSE
    /\ editor' = NoEditor
    /\ net' = {[r EXCEPT !.edLive = FALSE, !.pageLive = FALSE] :
                  r \in {q \in net : q.st = "req"}}

\* Settings.handleRestoreBackup on the file `data`
RestoreFile(data) ==
    /\ ~isLoading /\ ~EditorOpen
    /\ ops' = ops + 1
    /\ \E k \in 0..3 :
          LET res == restoreBackup(data, k)
          IN  /\ dbEvents' = res.events
              /\ dbSettings' = res.settings
              /\ IF res.ok THEN PageLoad
                 ELSE UNCHANGED <<events, globalAssets, settings, isLoading,
                                  isVisitorMode, editor, net>>
    /\ UNCHANGED <<dbAssets, server, boot, aux>>

\* the user restores a backup file from elsewhere
RestoreBackup ==
    /\ \E data \in BackupFiles : RestoreFile(data)
    /\ UNCHANGED backup

\* LocalDB.createBackup: JSON.stringify({timestamp, events, settings}) as
\* JSON.parse reads it back; a settings value of undefined leaves no key
createBackup(evStore, setStore) ==
    [events |-> getAllEvents(evStore), settings |-> setStore]

\* Settings.handleDownloadBackup; `restored` records whether the file has
\* been restored since
ExportBackup ==
    /\ ~isLoading /\ ~EditorOpen
    /\ ops' = ops + 1
    /\ backup' = [file |-> createBackup(dbEvents, dbSettings), restored |-> FALSE]
    /\ UNCHANGED <<db, app, editor, net, server, boot, aux>>

\* the user restores the file the last download produced
RestoreExported ==
    /\ backup # None
    /\ RestoreFile(backup.file)
    /\ backup' = [backup EXCEPT !.restored = isLoading']

\* the user reloads the page
Reload ==
    /\ ~isLoading
    /\ ops' = ops + 1
    /\ PageLoad
    /\ timers' = 0
    /\ UNCHANGED <<db, server, boot, backup, mails, answer, uploads>>

\* --------------------------------------------------------- specification
\* a manifest an earlier publish left on the server
PrePublished == [lastUpdated |-> 0, events |-> SEED_EVENTS,
                 settings |-> DefaultSettings, by |-> 0]

Init ==
    /\ dbEvents = EmptyStore
    /\ dbSettings = None
    /\ dbAssets = {}
    /\ events = <<>>
    /\ globalAssets = <<>>
    /\ settings = DefaultSettings
    /\ isLoading = TRUE
    /\ isVisitorMode = FALSE
    /\ editor = NoEditor
    /\ net = {}
    /\ \/ manifest = None /\ stripe \in BOOLEAN
       \/ manifest = PrePublished /\ stripe = FALSE
    /\ products = 0
    /\ clock = 1
    /\ ops = 0
    /\ boot = [hadLocal |-> FALSE, fetched |-> "no", seeded |-> FALSE,
               threw |-> FALSE]
    /\ backup = None
    /\ mails = 0
    /\ answer = NoAnswer
    /\ uploads = {}
    /\ timers = 0

\* the user waits for the outcome of a publish before the next click
Quiet == net = {}

\* the publish pipeline: editor, publish, server, sync-back
Next ==
    \/ BootstrapOk
    \/ Quiet /\ OpenNew
    \/ Quiet /\ OpenEdit
    \/ Quiet /\ CloseEditor
    \/ Quiet /\ ClickSave
    \/ Quiet /\ ops < MaxOps /\ EditPrice
    \/ Quiet /\ ops < MaxOps /\ EditImage
    \/ Quiet /\ ops < MaxOps /\ ClickPublish
    \/ Quiet /\ ops < MaxOps /\ DeleteEvent
    \/ ServerPublish
    \/ NetFail
    \/ PublishResponse

Spec == Init /\ [][Next]_vars

\* the bootstrap resolver: page loads over a Local Store the pages in between
\* have changed
NextBoot ==
    \/ Bootstrap
    \/ ops < MaxBootOps /\ DeleteEvent
    \/ ops < MaxBootOps /\ AddAsset
    \/ ops < MaxBootOps /\ UpdateSettings
    \/ ops < MaxBootOps /\ RestoreBackup
    \/ ops < MaxBootOps /\ Reload

SpecBoot == Init /\ [][NextBoot]_vars

\* backups: the Local Store is exported, changed and restored
NextBackup ==
    \/ BootstrapOk
    \/ ops < MaxBootOps /\ DeleteEvent
    \/ ops < MaxBootOps /\ UpdateSettings
    \/ ops < MaxBootOps /\ ExportBackup
    \/ ops < MaxBootOps /\ RestoreBackup
    \/ ops < MaxBootOps /\ RestoreExported

SpecBackup == Init /\ [][NextBackup]_vars

\* publishes that overlap: nothing in App.handlePublish or in the server waits
\* for an earlier publish; only the mounted editor's own button is disabled
\* while its publish is in flight
NextRace ==
    \/ BootstrapOk
    \/ OpenEdit
    \/ CloseEditor
    \/ ops < MaxOps /\ EditPrice
    \/ ops < MaxOps /\ Cardinality(net) < MaxInFlight /\ ClickPublish
    \/ ServerPublish
    \/ NetFail
    \/ PublishResponse

SpecRace == Init /\ [][NextRace]_vars

\* a session of the new-event and edit editors: open, edit, publish, save,
\* one publish at a time
NextEditor ==
    \/ BootstrapOk
    \/ Quiet /\ OpenNew
    \/ Quiet /\ OpenEdit
    \/ Quiet /\ ClickSave
    \/ Quiet /\ ops < MaxEditorOps /\ EditPrice
    \/ Quiet /\ ops < MaxEditorOps /\ EditImage
    \/ Quiet /\ ops < MaxEditorOps /\ ClickPublish
    \/ ServerPublish
    \/ PublishResponse

SpecEditor == Init /\ [][NextEditor]_vars

\* a session that restores a backup file and publishes what it holds; events
\* get assets of their own only from a backup file
NextRestore ==
    \/ BootstrapOk
    \/ Quiet /\ ops < MaxOps /\ RestoreBackup
    \/ Quiet /\ OpenEdit
    \/ Quiet /\ CloseEditor
    \/ Quiet /\ ops < MaxOps /\ ClickPublish
    \/ ServerPublish
    \/ PublishResponse

SpecRestore == Init /\ [][NextRestore]_vars

\* one editor, publishes one after another, and the editor's reset timers
NextTimer ==
    \/ BootstrapOk
    \/ OpenEdit
    \/ CloseEditor
    \/ ops < MaxOps /\ ClickPublish
    \/ ServerPublish
    \/ NetFail
    \/ PublishResponse
    \/ TimerFires

SpecTimer == Init /\ [][NextTimer]_vars

\* the owner goes on working on the Dashboard while a publish is in flight:
\* nothing in App disables delete, create or save until the response arrives
NextFlight ==
    \/ BootstrapOk
    \/ OpenNew
    \/ OpenEdit
    \/ CloseEditor
    \/ ClickSave
    \/ Quiet /\ ops < MaxOps /\ ClickPublish
    \/ ops < MaxOps /\ DeleteEvent
    \/ ServerPublish
    \/ PublishResponse

SpecFlight == Init /\ [][NextFlight]_vars

\* the guarded routes of the server, as driven by requests sent to them
\* directly; every step is one request and leaves its answer in `answer`
NextServer ==
    \/ UploadFile
    \/ PostPublish
    \/ AiRequest

SpecServer == Init /\ [][NextServer]_vars

\* payment notifications arriving at the server, over the manifests direct
\* publish requests leave
NextHook ==
    \/ mails < MaxMails /\ Webhook
    \/ PostPublish

SpecHook == Init /\ [][NextHook]_vars

\* ------------------------------------------------------------------ claims
\* the event of a list at the position of the first entry with the id
EventOf(s, id) == s[FindIndex(s, id)]

\* C1: idempotent sync end to end. A publish issued with no edits for a priced
\* event whose Local Store entry carries product P and price Q (payment
\* enabled) sends that event with P attached, makes the server update P and
\* create nothing for it, and gets the event back with P/Q.
C1_IdempotentSync ==
    \A r \in net :
       r.repeatP # 0 =>
          /\ FindIndex(r.events, r.cur) > 0
          /\ EventOf(r.events, r.cur).stripeProductId = r.repeatP
          /\ \A i \in 1..Len(r.calls) :
                r.calls[i][2] = r.cur => r.calls[i] = <<"update", r.cur, r.repeatP>>
          /\ (r.st = "resp" /\ r.ok) =>
                /\ EventOf(r.respEvents, r.cur).stripeProductId = r.repeatP
                /\ EventOf(r.respEvents, r.cur).stripePriceId = r.repeatQ

\* the server ran the request's loop over its events
Served(r) == r.st = "resp" /\ Len(r.calls) = Len(r.events)

\* an event the request sends with a product id, priced, payment enabled
Synced(e) == stripe /\ e.price > 0 /\ e.stripeProductId # 0

SameIds(e, f) ==
    /\ e.stripeProductId = f.stripeProductId
    /\ e.stripePriceId = f.stripePriceId

\* C2: for every event a publish request sends with a stripeProductId (price
\* > 0, provider configured) the server issues a product update against that
\* id and no create, and the event in the response and in the manifest the
\* request wrote carries the ids that were sent.
C2_ServerIdempotent ==
    \A r \in net :
       Served(r) =>
          \A i \in 1..Len(r.events) :
             Synced(r.events[i]) =>
                /\ r.calls[i] = <<"update", r.events[i].id,
                                  r.events[i].stripeProductId>>
                /\ r.ok => SameIds(r.respEvents[i], r.events[i])
                /\ (manifest # None /\ manifest.by = r.pid) =>
                      SameIds(manifest.events[i], r.events[i])

C2_Witness ==
    \E r \in net :
       /\ Served(r) /\ r.ok /\ manifest.by = r.pid
       /\ \E i \in 1..Len(r.events) :
             Synced(r.events[i]) /\ r.calls[i][1] = "update"

\* C3: event ids are unique in the Local Store and in every manifest a
\* publish wrote.
C3_UniqueIds ==
    /\ NoDupIds(getAllEvents(dbEvents))
    /\ manifest # None => NoDupIds(manifest.events)

\* a blob: or data: reference
Transient(u) == StartsWithBlob(u) \/ StartsWithData(u)

\* C4: no manifest written for a client publish holds a blob: or data:
\* cover-image reference or asset URL.
C4_NoTransientRefs ==
    (manifest # None /\ manifest.by # 0) =>
       \A i \in 1..Len(manifest.events) :
          /\ ~Transient(manifest.events[i].imageUrl)
          /\ \A j \in 1..Len(manifest.events[i].assets) :
                ~Transient(manifest.events[i].assets[j].url)

\* C6: a publish invoked in Visitor mode writes nothing to the Local Store,
\* sends no upload and no publish request, and leaves the manifest and the
\* in-memory events as they are.
C6_VisitorPublishNoOp ==
    [][(isVisitorMode /\ ClickPublish) =>
          UNCHANGED <<dbEvents, dbSettings, dbAssets, net, clock, manifest,
                      products, events>>]_vars

C6_Witness == isVisitorMode /\ EditorOpen /\ editor.publishStatus = "success"

\* ------------------------------------------------------- bootstrap claims
\* a Local Store with no events and no settings record
EmptyLocal == getAllEvents(dbEvents) = <<>> /\ dbSettings = None

\* this step is a run of init()
BootStep == isLoading /\ ~isLoading'

\* this step is a run of init() in which nothing threw an unexpected exception
Booted == BootStep /\ ~boot'.threw

\* C5: once bootstrap has resolved to Visitor mode, no operation the user can
\* reach (create, update, delete, add asset, update settings, restore backup
\* from the Settings page) changes the contents of the Local Store.
C5_VisitorReadOnly ==
    [][(~isLoading /\ isVisitorMode) => UNCHANGED db]_vars

\* C7: bootstrap with an empty Local Store and a manifest that is fetched and
\* parsed ends in Visitor mode, with the in-memory events equal to the
\* manifest's events in the manifest's order, and writes nothing to the Local
\* Store.
C7_VisitorBootstrap ==
    [][(Booted /\ EmptyLocal /\ boot'.fetched = "ok") =>
          /\ isVisitorMode'
          /\ events' = manifest.events
          /\ UNCHANGED db]_vars

C7_Witness ==
    /\ ~isLoading /\ isVisitorMode
    /\ boot.fetched = "ok" /\ ~boot.threw
    /\ manifest # None /\ Len(manifest.events) > 0
    /\ events = manifest.events

\* C8: bootstrap with an empty Local Store and an unreachable manifest ends in
\* Owner mode with the demo dataset persisted in the Local Store and the
\* in-memory events equal to a fresh read of the Local Store, which returns
\* the seeded events.
C8_SeedBootstrap ==
    [][(Booted /\ EmptyLocal /\ boot'.fetched = "netfail") =>
          /\ ~isVisitorMode'
          /\ getAllEvents(dbEvents') = SEED_EVENTS
          /\ events' = getAllEvents(dbEvents')]_vars

C8_Witness ==
    /\ ~isLoading /\ ~isVisitorMode
    /\ boot.fetched = "netfail" /\ boot.seeded /\ ~boot.threw
    /\ getAllEvents(dbEvents) = SEED_EVENTS
    /\ events = SEED_EVENTS

\* what init() does with a Local Store that holds an event or a settings
\* record: the manifest is not fetched, the in-memory events are the store's
\* events, nothing is seeded or written
UsesLocalData ==
    /\ boot'.fetched = "no"
    /\ ~boot'.seeded
    /\ events' = getAllEvents(dbEvents)
    /\ UNCHANGED db

\* C9 as stated: bootstrap resolves to Owner mode exactly when the Local Store
\* holds at least one event or a settings record; in that case the manifest
\* is never fetched, the in-memory events equal the Local Store events and no
\* demo data is seeded.
C9_OwnerExactlyWhenLocal ==
    [][Booted =>
          /\ ~isVisitorMode' <=> ~EmptyLocal
          /\ ~EmptyLocal => UsesLocalData]_vars

\* C9 amended: bootstrap resolves to Owner mode whenever the Local Store holds
\* at least one event or a settings record, and also when the store is empty
\* and no manifest is loaded; it resolves to Visitor mode only from an empty
\* store with a loaded manifest. When the store holds an event or a settings
\* record the manifest is never fetched, the in-memory events equal the Local
\* Store events and no demo data is seeded.
C9_OwnerWhenLocal ==
    [][/\ (BootStep /\ ~EmptyLocal) => ~isVisitorMode'
       /\ Booted =>
             /\ ~isVisitorMode' <=> (~EmptyLocal \/ boot'.fetched # "ok")
             /\ ~EmptyLocal => UsesLocalData]_vars

C9_Witness ==
    /\ ~isLoading /\ ~isVisitorMode
    /\ boot.hadLocal /\ boot.fetched = "no" /\ ~boot.seeded /\ ~boot.threw
    /\ Len(events) = 1
    /\ events = getAllEvents(dbEvents)

\* C10: during bootstrap with an empty Local Store, a network failure, a
\* non-OK response and an unparseable manifest body all end the same way: the
\* demo dataset is seeded and the mode is Owner, never Visitor.
C10_FetchFailureSeeds ==
    [][(Booted /\ EmptyLocal
          /\ boot'.fetched \in {"netfail", "notok", "unparseable"}) =>
          /\ boot'.seeded
          /\ ~isVisitorMode'
          /\ dbEvents' = saveAll(dbEvents, SEED_EVENTS)
          /\ events' = SEED_EVENTS
          /\ settings' = settings]_vars

C10_Witness ==
    /\ ~isLoading /\ ~isVisitorMode
    /\ boot.fetched = "unparseable" /\ boot.seeded /\ ~boot.threw
    /\ manifest # None
    /\ events = SEED_EVENTS

\* C11: bootstrap always ends in a loaded state: every step taken while the
\* page is loading is a run of init() that sets isLoading to false, and when
\* one of its steps threw (Local Store read, seeding, asset URL
\* materialization) the in-memory event and asset lists are left empty.
C11_LoadedButEmpty ==
    [][isLoading =>
          /\ ~isLoading'
          /\ boot'.threw => (events' = <<>> /\ globalAssets' = <<>>)]_vars

\* seeding threw after its first write: the store is partly seeded, the lists
\* are empty
C11_Witness ==
    /\ ~isLoading /\ boot.threw /\ boot.seeded
    /\ Len(getAllEvents(dbEvents)) = 1
    /\ events = <<>> /\ globalAssets = <<>>

\* request r's event at position i is priced, carries no product id, and the
\* server created product r.calls[i][3] for it
Created(r, i) ==
    /\ Served(r)
    /\ stripe /\ r.events[i].price > 0 /\ r.events[i].stripeProductId = 0
    /\ r.calls[i][1] = "create" /\ r.calls[i][3] # 0

\* two publishes in flight at the same time for which the server created a
\* product for the same event id
RacePairs ==
    {x \in net \X net \X (1..Len(SEED_EVENTS)) \X (1..Len(SEED_EVENTS)) :
        /\ x[1].pid < x[2].pid
        /\ x[3] <= Len(x[1].events) /\ x[4] <= Len(x[2].events)
        /\ x[1].events[x[3]].id = x[2].events[x[4]].id
        /\ Created(x[1], x[3]) /\ Created(x[2], x[4])}

\* C12: nothing serializes publishes: when two publishes are in flight at the
\* same time and both send the same priced event without a product id, both
\* take the create path at the server, and the event id ends up with two
\* different provider products.
C12_RaceCreatesTwice ==
    \A x \in RacePairs : x[1].calls[x[3]][3] # x[2].calls[x[4]][3]

C12_Witness ==
    \E x \in RacePairs :
       /\ x[1].calls[x[3]][3] # x[2].calls[x[4]][3]
       /\ products >= 2

\* the response r of a publish reaches the page in this step
Delivered(r) ==
    r \in net /\ r.st = "resp" /\ \A q \in net' : q.pid # r.pid

\* C13: after a publish whose response carries an event list, every returned
\* event is stored in the Local Store under its id with exactly the returned
\* content, provider ids included, and the in-memory event list equals the
\* returned list.
C13_SyncBack ==
    [][\A r \in net :
          (Delivered(r) /\ r.ok /\ Len(r.respEvents) > 0) =>
             /\ \A i \in 1..Len(r.respEvents) :
                   dbEvents'[r.respEvents[i].id] = r.respEvents[i]
             /\ events' = r.respEvents]_vars

\* the event handlePublishClick passes to onPublish
CurrentEvent == [editor.formData EXCEPT !.status = "published"]

\* positions of the entries of s that carry this id
Positions(s, id) == {i \in 1..Len(s) : s[i].id = id}

\* C14: when publish is invoked with a current event (Owner mode), the event
\* has been written to the Local Store whether or not an upload or the
\* request follows; the outgoing list contains it exactly once, in place of
\* the existing entry with the same id or prepended if there is none; the
\* in-memory list is that same list, and the request carries that list.
C14_SaveSpliceFirst ==
    [][(~isVisitorMode /\ ClickPublish) =>
          /\ dbEvents'[CurrentEvent.id] = CurrentEvent
          /\ Cardinality(Positions(events', CurrentEvent.id)) = 1
          /\ IF Positions(events, CurrentEvent.id) = {}
             THEN events' = <<CurrentEvent>> \o events
             ELSE /\ Len(events') = Len(events)
                  /\ \A i \in 1..Len(events) :
                        events'[i] = IF i = FindIndex(events, CurrentEvent.id)
                                     THEN CurrentEvent ELSE events[i]
          /\ \A r \in net' \ net :
                /\ Len(r.events) = Len(events')
                /\ \A i \in 1..Len(events') : r.events[i].id = events'[i].id]_vars

\* C15: when the publish request fails in transport or is answered with a
\* non-OK status, the publish is aborted: the editor that issued it ends in
\* 'error' status, nothing is written to the Local Store or to the in-memory
\* events on the response, and the current event saved before the request is
\* still in the Local Store as the editor holds it.
C15_FailedPublishAborts ==
    [][\A r \in net :
          (Delivered(r) /\ ~r.ok) =>
             /\ UNCHANGED <<dbEvents, events>>
             /\ r.edLive =>
                   /\ editor'.publishStatus = "error"
                   /\ dbEvents'[r.cur] = editor'.formData]_vars

\* a failed request, with no upload that could have failed before it, left
\* the editor in 'error' and the edited price in the Local Store
C15_Witness ==
    /\ EditorOpen /\ editor.publishStatus = "error" /\ net = {}
    /\ \A i \in 1..Len(events) : ~Transient(events[i].imageUrl)
    /\ editor.formData.price \notin {SeedPrice1, SeedPrice2, NewEventPrice}
    /\ dbEvents[editor.formData.id] = editor.formData

\* the server answers request q in this step, and answers it with an error
AnsweredWithError(q) ==
    /\ q \in net' /\ q.st = "resp" /\ ~q.ok
    /\ \E r \in net : r.pid = q.pid /\ r.st = "req"

\* C16: the manifest at the public path changes only together with a success
\* response: a POST /api/publish that is answered with an error status,
\* a failure while writing the second manifest copy included, leaves the
\* manifest at the public path as it was before the request.
C16_ErrorLeavesManifest ==
    [][\A q \in net' : AnsweredWithError(q) => manifest' = manifest]_vars

\* the binary behind a blob: or data: reference can be obtained
Resolves(u) == Transient(u) /\ u[2] = 1

\* no reference of the event, cover image or asset, has a binary to upload
NothingToUpload(e) ==
    /\ ~Resolves(e.imageUrl)
    /\ \A j \in 1..Len(e.assets) : ~Resolves(e.assets[j].url)

\* C17: for every event in the list passed to publish whose cover image
\* starts with 'blob:' or 'data:': if its binary resolves, the reference in
\* the outgoing payload is the URL the upload endpoint returned; if it cannot
\* be resolved, the reference is left unchanged and the publish still sends
\* the manifest instead of aborting.
C17_CoverResolution ==
    [][(~isVisitorMode /\ ClickPublish) =>
          /\ \A r \in net' \ net : \A i \in 1..Len(events') :
                Transient(events'[i].imageUrl) =>
                   IF Resolves(events'[i].imageUrl)
                   THEN r.events[i].imageUrl[1] = "uploads"
                   ELSE r.events[i].imageUrl = events'[i].imageUrl
          /\ (\A i \in 1..Len(events') : NothingToUpload(events'[i])) =>
                net' # net]_vars

\* C18: event assets get the same resolution as cover images: every asset of
\* a published event whose URL starts with 'blob:' or 'data:' and whose
\* binary can be obtained is uploaded, and its URL in the outgoing payload is
\* the path the server returned.
C18_AssetResolution ==
    [][(~isVisitorMode /\ ClickPublish) =>
          \A r \in net' \ net : \A i \in 1..Len(events') :
             \A j \in 1..Len(events'[i].assets) :
                Resolves(events'[i].assets[j].url) =>
                   r.events[i].assets[j].url[1] = "uploads"]_vars

\* C19: publishEvents never mutates the event list or the event objects the
\* caller passed in: after a publish click the in-memory list is the spliced
\* list with every imageUrl and asset url as before the call, and the
\* editor's and the Local Store's copy of the current event are as passed,
\* also when references were rewritten in the outgoing payload or the call
\* threw.
C19_NoCallerMutation ==
    [][(~isVisitorMode /\ ClickPublish) =>
          /\ events' = Splice(events, CurrentEvent)
          /\ editor'.formData = CurrentEvent
          /\ dbEvents'[CurrentEvent.id] = CurrentEvent]_vars

\* a request in flight whose payload has a rewritten cover image while the
\* in-memory event still carries the blob: or data: reference
C19_Witness ==
    \E r \in net :
       /\ r.st = "req" /\ Len(r.events) = Len(events)
       /\ \E i \in 1..Len(events) :
             /\ Transient(events[i].imageUrl)
             /\ r.events[i].imageUrl[1] = "uploads"
             /\ dbEvents[events[i].id].imageUrl = events[i].imageUrl

\* this step restores the exported file and all its writes succeed
RoundTrip == RestoreExported /\ isLoading'

\* C20 as stated: Export-Backup followed by Restore-Backup of the produced
\* file leaves the Local Store with the same set of event ids and the same
\* Settings object as at export time.
C20_RoundTrip ==
    [][RoundTrip =>
          /\ IdsOf(getAllEvents(dbEvents')) = IdsOf(backup.file.events)
          /\ dbSettings' = backup.file.settings]_vars

\* C20 amended: a successful Restore-Backup of the exported file puts every
\* exported event back under its id with its exported content, and the
\* exported Settings object if there was one; it removes nothing: events
\* stored since the export stay, and so does a Settings record first saved
\* since the export. Restored into the store as it was at export time or into
\* an empty store, the ids and the Settings object are those of export time.
C20_RestoreMerges ==
    [][RoundTrip =>
          /\ \A i \in 1..Len(backup.file.events) :
                dbEvents'[backup.file.events[i].id] = backup.file.events[i]
          /\ IdsOf(getAllEvents(dbEvents')) =
                IdsOf(backup.file.events) \cup IdsOf(getAllEvents(dbEvents))
          /\ dbSettings' = IF backup.file.settings # None
                           THEN backup.file.settings ELSE dbSettings
          /\ (EmptyLocal \/ createBackup(dbEvents, dbSettings) = backup.file) =>
                /\ IdsOf(getAllEvents(dbEvents')) = IdsOf(backup.file.events)
                /\ dbSettings' = backup.file.settings]_vars

\* the exported file has been restored, and the store holds what it held at
\* export time
C20_Witness ==
    /\ backup # None /\ backup.restored
    /\ createBackup(dbEvents, dbSettings) = backup.file
    /\ Len(backup.file.events) = 2
    /\ boot.seeded /\ isLoading

\* ---------------------------------------------------------- server claims
\* the notification answered in this step could not be verified: its body is
\* malformed, its signature is bad or absent, or no webhook secret is set
Unverified ==
    /\ answer'.route = "webhook"
    /\ \/ answer'.body = "malformed"
       \/ answer'.sig # "good"
       \/ ~answer'.secret

\* C21: a payment notification that is malformed or whose signature cannot be
\* verified (bad signature, missing signature header, or no webhook secret
\* configured) is answered with a client error and triggers no confirmation
\* message.
C21_UnverifiedRejected ==
    [][Unverified => (answer'.status = 400 /\ mails' = mails)]_vars

\* C22: any two successful uploads, two uploads with the same original
\* filename included, are stored under distinct filenames and return distinct
\* URLs: a successful upload never takes the filename of a file the uploads
\* directory already holds, so it never overwrites the file behind a URL
\* returned earlier.
C22_DistinctFilenames ==
    [][(answer'.route = "upload" /\ answer'.status = 200) =>
          answer'.file \notin uploads]_vars

\* ------------------------------------------------- later bootstrap claims
\* C23: in the Visitor branch of bootstrap the in-memory asset list is not
\* populated from the Local Store: assets that exist in a Local Store with no
\* events and no settings do not appear in the loaded state.
C23_VisitorNoLocalAssets ==
    [][(Booted /\ isVisitorMode') =>
          \A a \in Range(getAllAssets(dbAssets)) :
             processAsset(a) \notin Range(globalAssets')]_vars

\* ------------------------------------------------------- manifest claims
\* the server answers request q in this step, and answers it with success
AnsweredOk(q) ==
    /\ q \in net' /\ q.st = "resp" /\ q.ok
    /\ \E r \in net : r.pid = q.pid /\ r.st = "req"

\* the keys of the manifest file; `by` is the model's record of the request
\* that wrote it and is not part of the file
ManifestKeys(m) == DOMAIN m \ {"by"}

Unauthorized ==
    /\ answer'.route \in {"upload", "publish", "ai"}
    /\ answer'.auth # BearerSecret

\* no handler effect: no file is stored, the manifest is unchanged, no
\* provider product is created and the AI service is not called
NoHandlerEffect ==
    /\ UNCHANGED <<uploads, manifest, products, clock>>
    /\ ~answer'.called

C26_PublishingWhileInFlight ==
    /\ \A r \in net : r.edLive => editor.publishStatus = "publishing"
    /\ Cardinality({r \in net : r.edLive}) <= 1

\* the event is in neither the Local Store nor the in-memory list
Absent(store, list, id) == store[id] = None /\ id \notin IdsOf(list)

\* the event is in both the Local Store and the in-memory list
Present(store, list, id) == store[id] # None /\ id \in IdsOf(list)

\* C27: owner edits made while a publish is in flight survive its completion.
\* When the response of a publish is processed, an event of the request that
\* is by then in neither the Local Store nor the in-memory list (it was
\* deleted after the request was sent) is still absent from both after the
\* sync-back, and an event that is in both without being part of the request
\* (it was created after the request was sent) is still present in both.
C27_EditsSurviveSyncBack ==
    [][\A r \in net : Delivered(r) =>
          /\ \A id \in IdsOf(r.events) :
                Absent(dbEvents, events, id) => Absent(dbEvents', events', id)
          /\ \A id \in Ids \ IdsOf(r.events) :
                Present(dbEvents, events, id) => Present(dbEvents', events', id)]_vars

\* --------------------------------------------------------- provider claims
\* the server answers request q in this step
Answered(q) ==
    /\ q \in net' /\ q.st = "resp"
    /\ \E r \in net : r.pid = q.pid /\ r.st = "req"

\* the list holds the event `id` with product `p` and a price recorded on it
Recorded(list, id, p) ==
    \E j \in 1..Len(list) : /\ list[j].id = id
                            /\ list[j].stripeProductId = p
                            /\ list[j].stripePriceId # 0

\* C28: no provider product is orphaned. Every product the server creates
\* during a publish has its id recorded as stripeProductId, with a
\* stripePriceId, on the corresponding event in the response the client
\* receives and in the written manifest, also when price creation fails after
\* product creation or when writing the manifest fails.
C28_NoOrphanProduct ==
    [][\A q \in net' : Answered(q) =>
          \A i \in 1..Len(q.calls) :
             (q.calls[i][1] = "create" /\ q.calls[i][3] # 0) =>
                /\ Recorded(q.respEvents, q.calls[i][2], q.calls[i][3])
                /\ manifest' # None
                /\ Recorded(manifest'.events, q.calls[i][2], q.calls[i][3])]_vars

\* ------------------------------------------------------ persistence claims
\* the last bootstrap of this browser resolved to Owner: it found local data
\* or seeded the demo data, and nothing threw
WasOwner == (boot.hadLocal \/ boot.seeded) /\ ~boot.threw

\* C29: Owner mode is sticky across reloads. A bootstrap that follows one
\* that resolved to Owner (by finding local data or by seeding) resolves to
\* Owner too, whatever Owner operations were performed in between and
\* whether or not a published manifest is reachable.
C29_OwnerSticky ==
    [][(Booted /\ WasOwner) => ~isVisitorMode']_vars

\* this step is a Restore-Backup whose restoreBackup returned false: the page
\* is not reloaded
RestoreFailed == RestoreBackup /\ ~isLoading'

\* C30: restoreBackup is all-or-nothing on failure. Whenever it returns false
\* (unparseable JSON, or a failure while saving one of the contained events
\* or the settings), the Local Store holds exactly the events and settings
\* it held before the call.
C30_RestoreAllOrNothing ==
    [][RestoreFailed => UNCHANGED <<dbEvents, dbSettings>>]_vars

====
